---- MODULE Spec2Model ----
\* A model of core/src/poh_service.rs: the PohService tick producer thread, its
\* three strategies, the PohRecorder/Poh objects it drives, the concurrent
\* entry producer of test_poh_service and the owner that joins the thread.
EXTENDS Integers, Sequences, FiniteSets, TLC

VARIABLES
    hashes_per_tick,       \* poh_config.hashes_per_tick (None is NoValue)
    target_tick_count,     \* poh_config.target_tick_count (None is NoValue)
    target_tick_duration,  \* poh_config.target_tick_duration, in ns
    ticks_per_slot,        \* PohService::new argument
    hashes_per_batch,      \* PohService::new argument
    poh_exit,              \* the AtomicBool shared with the owner
    pc,                    \* position of the tick producer thread
    strategy,              \* which producer function the thread runs
    target_tick_ns,        \* tick_producer argument
    should_tick,           \* tick_producer local
    num_ticks,             \* tick_producer local
    num_hashes,            \* tick_producer local
    now_elapsed,           \* now.elapsed() (sleep time in the sleepy loops), in ns
    last_metric_elapsed,   \* last_metric.elapsed(), in ns
    total_sleep_us,        \* tick_producer local: 0, or 1 for a positive total
    total_lock_time_ns,    \* tick_producer local: 0, or 1 for a positive total
    total_hash_time_ns,    \* tick_producer local: 0, or 1 for a positive total
    total_tick_time_ns,    \* tick_producer local: 0, or 1 for a positive total
    elapsed_ns,            \* tick_producer local: now.elapsed() after the tick
    warned,                \* short_lived_sleepy_tick_producer local
    iter,                  \* iterations of the bounded for loop done so far
    poh,                   \* the Poh object: num_hashes and remaining_hashes
    poh_lock,              \* holder of the Mutex<Poh>
    recorder_lock,         \* holder of the Mutex<PohRecorder>
    poisoned,              \* the Mutex<PohRecorder> is poisoned
    ppc,                   \* position of the entry producer thread
    join_result,           \* what PohService::join returned to the owner
    sched_ticks,           \* history: PohRecorder::tick calls made by the thread
    ticks_after_exit,      \* history: those made after poh_exit became true
    warnings,              \* history: warn! calls
    flushes,               \* history: datapoint_info! calls
    phase,                 \* history: progress of the tick being produced
    exit_at_start,         \* history: poh_exit as the thread started
    hashes,                \* the entry receiver's accumulator (test local)
    need_tick,             \* test local: no tick entry of a whole tick yet
    need_entry,            \* test local: no payload entry yet
    need_partial,          \* test local: no tick entry of a partial tick yet
    asserts_hold           \* history: no assertion of the receiver failed

vars == <<hashes_per_tick, target_tick_count, target_tick_duration, ticks_per_slot,
          hashes_per_batch, poh_exit, pc, strategy, target_tick_ns, should_tick,
          num_ticks, num_hashes, now_elapsed, last_metric_elapsed, warned, iter,
          poh, poh_lock, recorder_lock, poisoned, ppc, join_result, sched_ticks,
          ticks_after_exit, warnings, flushes, phase, exit_at_start, hashes, need_tick,
          need_entry,
          need_partial, asserts_hold, total_sleep_us, total_lock_time_ns,
          total_hash_time_ns, total_tick_time_ns, elapsed_ns>>

config == <<hashes_per_tick, target_tick_count, target_tick_duration, ticks_per_slot,
            hashes_per_batch>>
rt_locals == <<target_tick_ns, should_tick, num_ticks, num_hashes, last_metric_elapsed>>
rt_measures == <<total_sleep_us, total_lock_time_ns, total_hash_time_ns,
                 total_tick_time_ns, elapsed_ns>>
ss_locals == <<warned, iter>>
receiver == <<hashes, need_tick, need_entry, need_partial, asserts_hold>>
history == <<sched_ticks, ticks_after_exit, warnings, flushes, phase, exit_at_start>>

\* ---------------------------------------------------------------- bounds
MaxHashesPerTick == 3
MaxBatch == 2
MaxTickCount == 2
MaxTicksPerSlot == 2
TickMs == 500
ScenarioTickMs == 100
ShortTickMs == 10
WideTicksPerSlot == 3

\* ------------------------------------------------------ program constants
TARGET_SLOT_ADJUSTMENT_NS == 50000000
MetricFlushMs == 1000
MinHashesPerTick == 2

NoValue == -1
NsPerMs == 1000 * 1000
Ms(n) == n * NsPerMs

Min(a, b) == IF a < b THEN a ELSE b
SatInc(x, cap) == IF x < cap THEN x + 1 ELSE cap
\* A running total of measured times is kept as zero or positive.
Positive(x) == IF x > 0 THEN 1 ELSE 0

\* Caps of the counters that the code lets grow without bound: ticks are
\* counted up to one past the configuration's horizon (the bounded tick count,
\* or a slot of the realtime loop), batches up to one more tick's worth.
Horizon ==
    IF hashes_per_tick # NoValue THEN ticks_per_slot
    ELSE IF target_tick_count # NoValue THEN target_tick_count
    ELSE MaxTickCount
TickCap == Horizon + 1
NumHashesCap == hashes_per_batch * (TickCap + 1)
MetricCap == Ms(MetricFlushMs + 1)
\* Elapsed times are kept up to the tick duration, which no budget exceeds but
\* WrappedBudget: it stands for a budget of 2^64 - k ns
\* (k <= TARGET_SLOT_ADJUSTMENT_NS).
ElapsedCap == target_tick_duration
WrappedBudget == ElapsedCap + 1

HashesPerTickSet == {NoValue} \cup (MinHashesPerTick .. MaxHashesPerTick)
TickCountSet == {NoValue, 0, MaxTickCount}
TickDurationSet == {Ms(TickMs)}
TicksPerSlotSet == {0, MaxTicksPerSlot}
BatchSet == 0 .. MaxBatch
NumCores == 1
CoreIdsSet == {NoValue, NumCores}
PinnedCoreSet == 0 .. NumCores

Sleepy == "sleepy_tick_producer"
ShortLived == "short_lived_sleepy_tick_producer"
Realtime == "tick_producer"

\* ------------------------------------------------------------ Poh object
\* Poh::new: no hashes done, a whole tick of hashes remaining.
PohNew(hpt) == [num_hashes |-> 0, remaining_hashes |-> hpt]

\* Poh::hash(max_num_hashes): hashes up to max_num_hashes times but leaves the
\* last hash of the tick to tick(); true when the caller has to tick() next.
PohHash(p, max_num_hashes) ==
    LET n == Min(p.remaining_hashes - 1, max_num_hashes)
    IN  [poh |-> [num_hashes |-> p.num_hashes + n,
                  remaining_hashes |-> p.remaining_hashes - n],
         should_tick |-> (p.remaining_hashes - n = 1)]

\* Poh::record(mixin): None (entry 0) when the next hash has to be a tick.
PohRecord(p, hpt) ==
    IF hpt # NoValue /\ p.remaining_hashes = 1
    THEN [poh |-> p, entry |-> 0]
    ELSE [poh |-> [num_hashes |-> 0,
                   remaining_hashes |-> IF hpt = NoValue THEN p.remaining_hashes
                                        ELSE p.remaining_hashes - 1],
          entry |-> p.num_hashes + 1]

\* Poh::tick(): one more hash; an entry only when the tick's hashes are used up
\* (always, when hashes_per_tick is None).
PohTick(p, hpt) ==
    IF hpt # NoValue /\ p.remaining_hashes - 1 # 0
    THEN [poh |-> [num_hashes |-> p.num_hashes + 1,
                   remaining_hashes |-> p.remaining_hashes - 1],
          entry |-> 0]
    ELSE [poh |-> [num_hashes |-> 0,
                   remaining_hashes |-> IF hpt = NoValue THEN p.remaining_hashes
                                        ELSE hpt],
          entry |-> p.num_hashes + 1]

\* --------------------------------------------------------- entry receiver
\* The receiving loop of the test, for one entry. A tick entry must have
\* num_hashes <= hashes_per_tick and must bring hashes to hashes_per_tick, and
\* resets it; another entry must have num_hashes >= 1. asserts_hold turns false
\* when one of the three assertions fails. Only a configuration with
\* hashes_per_tick is observed (the test unwraps it).
Receive(is_tick, n) ==
    IF hashes_per_tick = NoValue
    THEN UNCHANGED <<hashes, need_tick, need_entry, need_partial, asserts_hold>>
    ELSE IF is_tick
         THEN /\ asserts_hold' = (asserts_hold /\ n <= hashes_per_tick
                                               /\ hashes + n = hashes_per_tick)
              /\ need_tick' = (need_tick /\ n # hashes_per_tick)
              /\ need_partial' = (need_partial /\ n = hashes_per_tick)
              /\ hashes' = 0
              /\ UNCHANGED need_entry
         ELSE /\ asserts_hold' = (asserts_hold /\ n >= 1)
              /\ need_entry' = FALSE
              /\ hashes' = hashes + n
              /\ UNCHANGED <<need_tick, need_partial>>

\* PohRecorder::tick(): Poh::tick under the Poh lock; a tick entry goes out.
RecorderTick ==
    LET t == PohTick(poh, hashes_per_tick)
    IN  /\ poh' = t.poh
        /\ IF t.entry # 0 THEN Receive(TRUE, t.entry)
           ELSE UNCHANGED receiver

\* ------------------------------------------------------------------ Init
\* The state PohService::new leaves behind: the thread spawned, the recorder
\* and its Poh as constructed, the producer and the receiver of the test at
\* the start of their loops.
Constructed ==
    /\ poh_exit \in BOOLEAN
    /\ pc = "spawned"
    /\ strategy = "none"
    /\ target_tick_ns = 0
    /\ should_tick = FALSE
    /\ num_ticks = 0
    /\ num_hashes = 0
    /\ now_elapsed = 0
    /\ last_metric_elapsed = 0
    /\ total_sleep_us = 0
    /\ total_lock_time_ns = 0
    /\ total_hash_time_ns = 0
    /\ total_tick_time_ns = 0
    /\ elapsed_ns = 0
    /\ warned = FALSE
    /\ iter = 0
    /\ poh = PohNew(hashes_per_tick)
    /\ poh_lock = "free"
    /\ recorder_lock = "free"
    /\ poisoned = FALSE
    /\ ppc = "p_lock"
    /\ join_result = "none"
    /\ sched_ticks = 0
    /\ ticks_after_exit = 0
    /\ warnings = 0
    /\ flushes = 0
    /\ phase = "idle"
    /\ exit_at_start = FALSE
    /\ hashes = 0
    /\ need_tick = TRUE
    /\ need_entry = TRUE
    /\ need_partial = TRUE
    /\ asserts_hold = TRUE

Init ==
    /\ hashes_per_tick \in HashesPerTickSet
    /\ target_tick_count \in IF hashes_per_tick = NoValue THEN TickCountSet
                            ELSE {NoValue, MaxTickCount}
    /\ target_tick_duration \in TickDurationSet
    /\ ticks_per_slot \in TicksPerSlotSet
    /\ hashes_per_batch \in BatchSet
    /\ Constructed

\* ------------------------------------------------- the thread's start-up
\* SelectStrategy testing the tick count first.
SelectStrategyCountFirst(hpt, count) ==
    IF count # NoValue THEN ShortLived
    ELSE IF hpt = NoValue THEN Sleepy ELSE Realtime

\* The nested conditionals of the thread closure.
SelectStrategy(hpt, count) ==
    IF hpt = NoValue
    THEN IF count = NoValue THEN Sleepy ELSE ShortLived
    ELSE Realtime

\* AdjustmentPerTick without the division by ticks_per_slot.
AdjustmentWhole(tps) ==
    IF tps > 0 THEN TARGET_SLOT_ADJUSTMENT_NS ELSE 0

\* adjustment_per_tick of the realtime branch.
AdjustmentPerTick(tps) ==
    IF tps > 0 THEN TARGET_SLOT_ADJUSTMENT_NS \div tps ELSE 0

\* The u64 subtraction target_tick_duration - adjustment_per_tick of a build
\* without overflow checks.
WrappingSub(a, b) == IF a >= b THEN a - b ELSE WrappedBudget

\* The thread closure up to the call of the producer function. In the realtime
\* branch cores[pinned_cpu_core] panics on an index out of range, and the
\* subtraction panics on underflow in a build with overflow checks.
ThreadStart ==
    /\ pc = "spawned"
    /\ \E core_ids \in CoreIdsSet, pinned_cpu_core \in PinnedCoreSet,
          overflow_checks \in BOOLEAN :
        LET s == SelectStrategy(hashes_per_tick, target_tick_count)
            adj == AdjustmentPerTick(ticks_per_slot)
            bad_core == core_ids # NoValue /\ pinned_cpu_core >= core_ids
            underflow == target_tick_duration < adj
        IN  /\ strategy' = s
            /\ exit_at_start' = poh_exit
            /\ IF s = Realtime
               THEN IF bad_core \/ (underflow /\ overflow_checks)
                    THEN pc' = "panicked" /\ UNCHANGED target_tick_ns
                    ELSE /\ pc' = "rt_init"
                         /\ target_tick_ns' = WrappingSub(target_tick_duration, adj)
               ELSE /\ pc' = IF s = Sleepy THEN "sl_check" ELSE "ss_loop"
                    /\ UNCHANGED target_tick_ns
    /\ UNCHANGED rt_measures
    /\ UNCHANGED <<config, poh_exit, should_tick, num_ticks, num_hashes, now_elapsed,
                   last_metric_elapsed, ss_locals, poh, poh_lock, recorder_lock,
                   poisoned, ppc, join_result, sched_ticks, ticks_after_exit, warnings,
                   flushes, phase, receiver>>

\* ------------------------------------------------------- shared fragments
\* History of a PohRecorder::tick call made by the thread.
CountSchedTick ==
    /\ sched_ticks' = SatInc(sched_ticks, TickCap)
    /\ ticks_after_exit' = IF poh_exit THEN SatInc(ticks_after_exit, 2)
                           ELSE ticks_after_exit

\* SleepOver of a sleep that may return at once.
SleepOverAtOnce == TRUE

\* sleep(target_tick_duration) returns once that much time has passed.
SleepOver == now_elapsed >= target_tick_duration

\* ------------------------------------------------- sleepy_tick_producer
\* while !poh_exit.load(): leave the loop, or start the sleep.
SlCheck ==
    /\ pc = "sl_check"
    /\ IF poh_exit
       THEN pc' = "returned" /\ UNCHANGED <<now_elapsed, phase>>
       ELSE pc' = "sl_sleep" /\ now_elapsed' = 0 /\ phase' = "sleeping"
    /\ UNCHANGED rt_measures
    /\ UNCHANGED <<config, poh_exit, strategy, rt_locals, ss_locals, poh, poh_lock,
                   recorder_lock, poisoned, ppc, join_result, sched_ticks,
                   ticks_after_exit, warnings, flushes, exit_at_start, receiver>>

\* SlSleep waking up early when the exit flag is set.
SlSleepPollsExit ==
    /\ pc = "sl_sleep"
    /\ SleepOver \/ poh_exit
    /\ pc' = IF poh_exit THEN "returned" ELSE "sl_lock"
    /\ UNCHANGED rt_measures
    /\ UNCHANGED <<config, poh_exit, strategy, rt_locals, now_elapsed, ss_locals, poh,
                   poh_lock, recorder_lock, poisoned, ppc, join_result, history,
                   receiver>>

\* sleep(poh_config.target_tick_duration)
SlSleep ==
    /\ pc = "sl_sleep"
    /\ SleepOver
    /\ pc' = "sl_lock"
    /\ UNCHANGED rt_measures
    /\ UNCHANGED <<config, poh_exit, strategy, rt_locals, now_elapsed, ss_locals, poh,
                   poh_lock, recorder_lock, poisoned, ppc, join_result, history,
                   receiver>>

\* poh_recorder.lock().unwrap(): panics when the mutex is poisoned.
SlLock ==
    /\ pc = "sl_lock"
    /\ recorder_lock = "free"
    /\ IF poisoned
       THEN pc' = "panicked" /\ UNCHANGED recorder_lock
       ELSE pc' = "sl_tick" /\ recorder_lock' = "sched"
    /\ UNCHANGED rt_measures
    /\ UNCHANGED <<config, poh_exit, strategy, rt_locals, now_elapsed, ss_locals, poh,
                   poh_lock, poisoned, ppc, join_result, history, receiver>>

\* .tick() and the drop of the guard at the end of the statement.
SlTick ==
    /\ pc = "sl_tick"
    /\ poh_lock = "free"
    /\ RecorderTick
    /\ CountSchedTick
    /\ recorder_lock' = "free"
    /\ phase' = "ticked"
    /\ pc' = "sl_check"
    /\ UNCHANGED rt_measures
    /\ UNCHANGED <<config, poh_exit, strategy, rt_locals, now_elapsed, ss_locals,
                   poh_lock, poisoned, ppc, join_result, warnings, flushes, exit_at_start>>

\* --------------------------------------- short_lived_sleepy_tick_producer
\* for _ in 0..target_tick_count: next iteration, or the end of the range.
SsLoop ==
    /\ pc = "ss_loop"
    /\ IF iter < target_tick_count
       THEN pc' = "ss_sleep" /\ iter' = iter + 1 /\ now_elapsed' = 0
            /\ phase' = "sleeping"
       ELSE pc' = "returned" /\ UNCHANGED <<iter, now_elapsed, phase>>
    /\ UNCHANGED rt_measures
    /\ UNCHANGED <<config, poh_exit, strategy, rt_locals, warned, poh, poh_lock,
                   recorder_lock, poisoned, ppc, join_result, sched_ticks,
                   ticks_after_exit, warnings, flushes, exit_at_start, receiver>>

\* sleep(poh_config.target_tick_duration)
SsSleep ==
    /\ pc = "ss_sleep"
    /\ SleepOver
    /\ pc' = "ss_lock"
    /\ UNCHANGED rt_measures
    /\ UNCHANGED <<config, poh_exit, strategy, rt_locals, now_elapsed, ss_locals, poh,
                   poh_lock, recorder_lock, poisoned, ppc, join_result, history,
                   receiver>>

SsLock ==
    /\ pc = "ss_lock"
    /\ recorder_lock = "free"
    /\ IF poisoned
       THEN pc' = "panicked" /\ UNCHANGED recorder_lock
       ELSE pc' = "ss_tick" /\ recorder_lock' = "sched"
    /\ UNCHANGED rt_measures
    /\ UNCHANGED <<config, poh_exit, strategy, rt_locals, now_elapsed, ss_locals, poh,
                   poh_lock, poisoned, ppc, join_result, history, receiver>>

SsTick ==
    /\ pc = "ss_tick"
    /\ poh_lock = "free"
    /\ RecorderTick
    /\ CountSchedTick
    /\ recorder_lock' = "free"
    /\ phase' = "ticked"
    /\ pc' = "ss_warn"
    /\ UNCHANGED rt_measures
    /\ UNCHANGED <<config, poh_exit, strategy, rt_locals, now_elapsed, ss_locals,
                   poh_lock, poisoned, ppc, join_result, warnings, flushes, exit_at_start>>

\* SsWarn leaving the loop when it observes the exit flag.
SsWarnBreaks ==
    /\ pc = "ss_warn"
    /\ IF poh_exit /\ ~warned
       THEN warned' = TRUE /\ warnings' = SatInc(warnings, 2)
       ELSE UNCHANGED <<warned, warnings>>
    /\ pc' = IF poh_exit THEN "returned" ELSE "ss_loop"
    /\ UNCHANGED rt_measures
    /\ UNCHANGED <<config, poh_exit, strategy, rt_locals, now_elapsed, iter, poh,
                   poh_lock, recorder_lock, poisoned, ppc, join_result, sched_ticks,
                   ticks_after_exit, flushes, phase, exit_at_start, receiver>>

\* SsWarn without the warned flag: one warning per iteration.
SsWarnEveryTime ==
    /\ pc = "ss_warn"
    /\ IF poh_exit
       THEN warned' = TRUE /\ warnings' = SatInc(warnings, 2)
       ELSE UNCHANGED <<warned, warnings>>
    /\ pc' = "ss_loop"
    /\ UNCHANGED rt_measures
    /\ UNCHANGED <<config, poh_exit, strategy, rt_locals, now_elapsed, iter, poh,
                   poh_lock, recorder_lock, poisoned, ppc, join_result, sched_ticks,
                   ticks_after_exit, flushes, phase, exit_at_start, receiver>>

\* if poh_exit.load() && !warned { warned = true; warn!(...) }
SsWarn ==
    /\ pc = "ss_warn"
    /\ IF poh_exit /\ ~warned
       THEN warned' = TRUE /\ warnings' = SatInc(warnings, 2)
       ELSE UNCHANGED <<warned, warnings>>
    /\ pc' = "ss_loop"
    /\ UNCHANGED rt_measures
    /\ UNCHANGED <<config, poh_exit, strategy, rt_locals, now_elapsed, iter, poh,
                   poh_lock, recorder_lock, poisoned, ppc, join_result, sched_ticks,
                   ticks_after_exit, flushes, phase, exit_at_start, receiver>>

\* ---------------------------------------------------------- tick_producer
RtLoopPcs == {"rt_loop", "rt_hash", "rt_tick_lock", "rt_tick", "rt_spin", "rt_metrics",
              "rt_exit"}

\* The running totals of measured times at zero (lines 120-123, 172-177).
ResetTotals ==
    /\ total_sleep_us' = 0
    /\ total_lock_time_ns' = 0
    /\ total_hash_time_ns' = 0
    /\ total_tick_time_ns' = 0

\* RtInit with the loop's exit check at the top of the loop.
RtInitChecksExit ==
    /\ pc = "rt_init"
    /\ recorder_lock = "free"
    /\ IF poisoned
       THEN pc' = "panicked" /\ UNCHANGED <<rt_locals, now_elapsed>>
       ELSE /\ pc' = "rt_exit"
            /\ now_elapsed' = 0
            /\ last_metric_elapsed' = 0
            /\ num_ticks' = 0
            /\ num_hashes' = 0
            /\ UNCHANGED <<target_tick_ns, should_tick>>
    /\ IF poisoned THEN UNCHANGED rt_measures
       ELSE ResetTotals /\ UNCHANGED elapsed_ns
    /\ UNCHANGED <<config, poh_exit, strategy, ss_locals, poh, poh_lock, recorder_lock,
                   poisoned, ppc, join_result, history, receiver>>

\* let poh = poh_recorder.lock().unwrap().poh.clone() and the locals' initial
\* values.
RtInit ==
    /\ pc = "rt_init"
    /\ recorder_lock = "free"
    /\ IF poisoned
       THEN pc' = "panicked" /\ UNCHANGED <<rt_locals, now_elapsed>>
       ELSE /\ pc' = "rt_loop"
            /\ now_elapsed' = 0
            /\ last_metric_elapsed' = 0
            /\ num_ticks' = 0
            /\ num_hashes' = 0
            /\ UNCHANGED <<target_tick_ns, should_tick>>
    /\ IF poisoned THEN UNCHANGED rt_measures
       ELSE ResetTotals /\ UNCHANGED elapsed_ns
    /\ UNCHANGED <<config, poh_exit, strategy, ss_locals, poh, poh_lock, recorder_lock,
                   poisoned, ppc, join_result, history, receiver>>

\* RtLockPoh counting the hashes the batch can still do in this tick.
RtLockPohCountsDone ==
    /\ pc = "rt_loop"
    /\ poh_lock = "free"
    /\ num_hashes' = Min(num_hashes + Min(poh.remaining_hashes - 1, hashes_per_batch),
                         NumHashesCap)
    /\ poh_lock' = "sched"
    /\ phase' = "hashing"
    /\ pc' = "rt_hash"
    /\ total_lock_time_ns' = Positive(total_lock_time_ns + 1)
    /\ UNCHANGED <<total_sleep_us, total_hash_time_ns, total_tick_time_ns, elapsed_ns>>
    /\ UNCHANGED <<config, poh_exit, strategy, target_tick_ns, should_tick, num_ticks,
                   last_metric_elapsed, now_elapsed, ss_locals, poh, recorder_lock,
                   poisoned, ppc, join_result, sched_ticks, ticks_after_exit, warnings,
                   flushes, exit_at_start, receiver>>

\* num_hashes += hashes_per_batch; poh.lock().unwrap()
RtLockPoh ==
    /\ pc = "rt_loop"
    /\ poh_lock = "free"
    /\ num_hashes' = Min(num_hashes + hashes_per_batch, NumHashesCap)
    /\ poh_lock' = "sched"
    /\ phase' = "hashing"
    /\ pc' = "rt_hash"
    /\ total_lock_time_ns' = Positive(total_lock_time_ns + 1)
    /\ UNCHANGED <<total_sleep_us, total_hash_time_ns, total_tick_time_ns, elapsed_ns>>
    /\ UNCHANGED <<config, poh_exit, strategy, target_tick_ns, should_tick, num_ticks,
                   last_metric_elapsed, now_elapsed, ss_locals, poh, recorder_lock,
                   poisoned, ppc, join_result, sched_ticks, ticks_after_exit, warnings,
                   flushes, exit_at_start, receiver>>

\* RtHash taking every batch for the end of a tick.
RtHashTicksEveryBatch ==
    /\ pc = "rt_hash"
    /\ LET r == PohHash(poh, hashes_per_batch)
       IN  /\ poh' = r.poh
           /\ should_tick' = TRUE
           /\ pc' = "rt_tick_lock"
    /\ poh_lock' = "free"
    /\ total_hash_time_ns' = Positive(total_hash_time_ns + 1)
    /\ UNCHANGED <<total_sleep_us, total_lock_time_ns, total_tick_time_ns, elapsed_ns>>
    /\ UNCHANGED <<config, poh_exit, strategy, target_tick_ns, num_ticks, num_hashes,
                   last_metric_elapsed, now_elapsed, ss_locals, recorder_lock, poisoned,
                   ppc, join_result, history, receiver>>

\* RtHash with the Poh guard kept alive past the block.
RtHashKeepsGuard ==
    /\ pc = "rt_hash"
    /\ LET r == PohHash(poh, hashes_per_batch)
       IN  /\ poh' = r.poh
           /\ should_tick' = r.should_tick
           /\ pc' = IF r.should_tick THEN "rt_tick_lock" ELSE "rt_loop"
    /\ total_hash_time_ns' = Positive(total_hash_time_ns + 1)
    /\ UNCHANGED <<total_sleep_us, total_lock_time_ns, total_tick_time_ns, elapsed_ns>>
    /\ UNCHANGED <<config, poh_exit, strategy, target_tick_ns, num_ticks, num_hashes,
                   last_metric_elapsed, now_elapsed, ss_locals, poh_lock, recorder_lock,
                   poisoned, ppc, join_result, history, receiver>>

\* RtHash with the exit check after the if block: read after every batch.
RtHashChecksExit ==
    /\ pc = "rt_hash"
    /\ LET r == PohHash(poh, hashes_per_batch)
       IN  /\ poh' = r.poh
           /\ should_tick' = r.should_tick
           /\ pc' = IF r.should_tick THEN "rt_tick_lock" ELSE "rt_exit"
    /\ poh_lock' = "free"
    /\ total_hash_time_ns' = Positive(total_hash_time_ns + 1)
    /\ UNCHANGED <<total_sleep_us, total_lock_time_ns, total_tick_time_ns, elapsed_ns>>
    /\ UNCHANGED <<config, poh_exit, strategy, target_tick_ns, num_ticks, num_hashes,
                   last_metric_elapsed, now_elapsed, ss_locals, recorder_lock, poisoned,
                   ppc, join_result, history, receiver>>

\* let r = poh_l.hash(hashes_per_batch), the drop of the guard, if should_tick.
RtHash ==
    /\ pc = "rt_hash"
    /\ LET r == PohHash(poh, hashes_per_batch)
       IN  /\ poh' = r.poh
           /\ should_tick' = r.should_tick
           /\ pc' = IF r.should_tick THEN "rt_tick_lock" ELSE "rt_loop"
    /\ poh_lock' = "free"
    /\ total_hash_time_ns' = Positive(total_hash_time_ns + 1)
    /\ UNCHANGED <<total_sleep_us, total_lock_time_ns, total_tick_time_ns, elapsed_ns>>
    /\ UNCHANGED <<config, poh_exit, strategy, target_tick_ns, num_ticks, num_hashes,
                   last_metric_elapsed, now_elapsed, ss_locals, recorder_lock, poisoned,
                   ppc, join_result, history, receiver>>

\* let mut poh_recorder_l = poh_recorder.lock().unwrap()
RtTickLock ==
    /\ pc = "rt_tick_lock"
    /\ recorder_lock = "free"
    /\ IF poisoned
       THEN pc' = "panicked" /\ UNCHANGED recorder_lock
       ELSE pc' = "rt_tick" /\ recorder_lock' = "sched"
    /\ total_lock_time_ns' = IF poisoned THEN total_lock_time_ns
                             ELSE Positive(total_lock_time_ns + 1)
    /\ UNCHANGED <<total_sleep_us, total_hash_time_ns, total_tick_time_ns, elapsed_ns>>
    /\ UNCHANGED <<config, poh_exit, strategy, rt_locals, now_elapsed, ss_locals, poh,
                   poh_lock, poisoned, ppc, join_result, history, receiver>>

\* RtTick with the tick taken on the Poh itself (poh.lock().unwrap().tick()):
\* the recorder never sends the tick entry.
RtTickDropsEntry ==
    /\ pc = "rt_tick"
    /\ poh_lock = "free"
    /\ poh' = PohTick(poh, hashes_per_tick).poh
    /\ CountSchedTick
    /\ recorder_lock' = "free"
    /\ num_ticks' = SatInc(num_ticks, TickCap)
    /\ phase' = "ticked"
    /\ pc' = "rt_spin"
    /\ total_tick_time_ns' = Positive(total_tick_time_ns + 1)
    /\ elapsed_ns' = now_elapsed
    /\ UNCHANGED <<total_sleep_us, total_lock_time_ns, total_hash_time_ns>>
    /\ UNCHANGED <<config, poh_exit, strategy, target_tick_ns, should_tick, num_hashes,
                   last_metric_elapsed, now_elapsed, ss_locals, poh_lock, poisoned, ppc,
                   join_result, warnings, flushes, exit_at_start, receiver>>

\* RtTick with the recorder guard kept alive past the block.
RtTickKeepsGuard ==
    /\ pc = "rt_tick"
    /\ poh_lock = "free"
    /\ RecorderTick
    /\ CountSchedTick
    /\ num_ticks' = SatInc(num_ticks, TickCap)
    /\ phase' = "ticked"
    /\ pc' = "rt_spin"
    /\ total_tick_time_ns' = Positive(total_tick_time_ns + 1)
    /\ elapsed_ns' = now_elapsed
    /\ UNCHANGED <<total_sleep_us, total_lock_time_ns, total_hash_time_ns>>
    /\ UNCHANGED <<config, poh_exit, strategy, target_tick_ns, should_tick, num_hashes,
                   last_metric_elapsed, now_elapsed, ss_locals, poh_lock, recorder_lock,
                   poisoned, ppc, join_result, warnings, flushes, exit_at_start>>

\* RtTick without num_ticks += 1.
RtTickNoCount ==
    /\ pc = "rt_tick"
    /\ poh_lock = "free"
    /\ RecorderTick
    /\ CountSchedTick
    /\ recorder_lock' = "free"
    /\ phase' = "ticked"
    /\ pc' = "rt_spin"
    /\ total_tick_time_ns' = Positive(total_tick_time_ns + 1)
    /\ elapsed_ns' = now_elapsed
    /\ UNCHANGED <<total_sleep_us, total_lock_time_ns, total_hash_time_ns>>
    /\ UNCHANGED <<config, poh_exit, strategy, rt_locals, now_elapsed, ss_locals,
                   poh_lock, poisoned, ppc, join_result, warnings, flushes, exit_at_start>>

\* poh_recorder_l.tick(), the end of the block, num_ticks += 1.
RtTick ==
    /\ pc = "rt_tick"
    /\ poh_lock = "free"
    /\ RecorderTick
    /\ CountSchedTick
    /\ recorder_lock' = "free"
    /\ num_ticks' = SatInc(num_ticks, TickCap)
    /\ phase' = "ticked"
    /\ pc' = "rt_spin"
    /\ total_tick_time_ns' = Positive(total_tick_time_ns + 1)
    /\ elapsed_ns' = now_elapsed
    /\ UNCHANGED <<total_sleep_us, total_lock_time_ns, total_hash_time_ns>>
    /\ UNCHANGED <<config, poh_exit, strategy, target_tick_ns, should_tick, num_hashes,
                   last_metric_elapsed, now_elapsed, ss_locals, poh_lock, poisoned, ppc,
                   join_result, warnings, flushes, exit_at_start>>

\* RtSpin without the wait.
RtSpinNoWait ==
    /\ pc = "rt_spin"
    /\ now_elapsed' = 0
    /\ phase' = "spun"
    /\ pc' = "rt_metrics"
    /\ total_sleep_us' = Positive(total_sleep_us + (now_elapsed - elapsed_ns) \div 1000)
    /\ elapsed_ns' = 0
    /\ UNCHANGED <<total_lock_time_ns, total_hash_time_ns, total_tick_time_ns>>
    /\ UNCHANGED <<config, poh_exit, strategy, rt_locals, ss_locals, poh, poh_lock,
                   recorder_lock, poisoned, ppc, join_result, sched_ticks,
                   ticks_after_exit, warnings, flushes, exit_at_start, receiver>>

\* The spin loop is over once now.elapsed() reaches target_tick_ns; then
\* now = Instant::now().
RtSpin ==
    /\ pc = "rt_spin"
    /\ ~(now_elapsed < target_tick_ns)
    /\ now_elapsed' = 0
    /\ phase' = "spun"
    /\ pc' = "rt_metrics"
    /\ total_sleep_us' = Positive(total_sleep_us + (now_elapsed - elapsed_ns) \div 1000)
    /\ elapsed_ns' = 0
    /\ UNCHANGED <<total_lock_time_ns, total_hash_time_ns, total_tick_time_ns>>
    /\ UNCHANGED <<config, poh_exit, strategy, rt_locals, ss_locals, poh, poh_lock,
                   recorder_lock, poisoned, ppc, join_result, sched_ticks,
                   ticks_after_exit, warnings, flushes, exit_at_start, receiver>>

\* RtMetrics without total_lock_time_ns = 0.
RtMetricsKeepsLockTime ==
    /\ pc = "rt_metrics"
    /\ IF last_metric_elapsed \div NsPerMs > MetricFlushMs
       THEN IF num_ticks = 0
            THEN pc' = "panicked" /\ UNCHANGED <<rt_locals, rt_measures, flushes>>
            ELSE /\ flushes' = SatInc(flushes, 1)
                 /\ num_ticks' = 0
                 /\ num_hashes' = 0
                 /\ total_sleep_us' = 0
                 /\ total_hash_time_ns' = 0
                 /\ total_tick_time_ns' = 0
                 /\ UNCHANGED total_lock_time_ns
                 /\ last_metric_elapsed' = 0
                 /\ pc' = "rt_exit"
                 /\ UNCHANGED <<target_tick_ns, should_tick, elapsed_ns>>
       ELSE pc' = "rt_exit" /\ UNCHANGED <<rt_locals, rt_measures, flushes>>
    /\ UNCHANGED <<config, poh_exit, strategy, now_elapsed, ss_locals, poh, poh_lock,
                   recorder_lock, poisoned, ppc, join_result, sched_ticks,
                   ticks_after_exit, warnings, phase, exit_at_start, receiver>>

\* if last_metric.elapsed().as_millis() > 1000: the datapoint (its division by
\* num_ticks panics on zero) and the reset of the totals.
RtMetrics ==
    /\ pc = "rt_metrics"
    /\ IF last_metric_elapsed \div NsPerMs > MetricFlushMs
       THEN IF num_ticks = 0
            THEN pc' = "panicked" /\ UNCHANGED <<rt_locals, rt_measures, flushes>>
            ELSE /\ flushes' = SatInc(flushes, 1)
                 /\ num_ticks' = 0
                 /\ num_hashes' = 0
                 /\ ResetTotals
                 /\ last_metric_elapsed' = 0
                 /\ pc' = "rt_exit"
                 /\ UNCHANGED <<target_tick_ns, should_tick, elapsed_ns>>
       ELSE pc' = "rt_exit" /\ UNCHANGED <<rt_locals, rt_measures, flushes>>
    /\ UNCHANGED <<config, poh_exit, strategy, now_elapsed, ss_locals, poh, poh_lock,
                   recorder_lock, poisoned, ppc, join_result, sched_ticks,
                   ticks_after_exit, warnings, phase, exit_at_start, receiver>>

\* if poh_exit.load() { break; }
RtExitCheck ==
    /\ pc = "rt_exit"
    /\ pc' = IF poh_exit THEN "returned" ELSE "rt_loop"
    /\ UNCHANGED rt_measures
    /\ UNCHANGED <<config, poh_exit, strategy, rt_locals, now_elapsed, ss_locals, poh,
                   poh_lock, recorder_lock, poisoned, ppc, join_result, history,
                   receiver>>

\* ------------------------------------------------------ the thread's end
\* StoreExit without the store.
StoreExitSkipped ==
    /\ pc = "returned"
    /\ pc' = "done"
    /\ UNCHANGED rt_measures
    /\ UNCHANGED <<config, poh_exit, strategy, rt_locals, now_elapsed, ss_locals, poh,
                   poh_lock, recorder_lock, poisoned, ppc, join_result, history,
                   receiver>>

\* poh_exit_.store(true) after the producer function returned.
StoreExit ==
    /\ pc = "returned"
    /\ poh_exit' = TRUE
    /\ pc' = "done"
    /\ UNCHANGED rt_measures
    /\ UNCHANGED <<config, strategy, rt_locals, now_elapsed, ss_locals, poh, poh_lock,
                   recorder_lock, poisoned, ppc, join_result, history, receiver>>

Terminated == pc \in {"done", "panicked"}

\* Join reporting success whatever the thread's end.
JoinSwallowsPanic ==
    /\ join_result = "none"
    /\ Terminated
    /\ join_result' = "ok"
    /\ UNCHANGED rt_measures
    /\ UNCHANGED <<config, poh_exit, pc, strategy, rt_locals, now_elapsed, ss_locals,
                   poh, poh_lock, recorder_lock, poisoned, ppc, history, receiver>>

\* PohService::join: the thread's result, Err when it panicked.
Join ==
    /\ join_result = "none"
    /\ Terminated
    /\ join_result' = IF pc = "panicked" THEN "err" ELSE "ok"
    /\ UNCHANGED rt_measures
    /\ UNCHANGED <<config, poh_exit, pc, strategy, rt_locals, now_elapsed, ss_locals,
                   poh, poh_lock, recorder_lock, poisoned, ppc, history, receiver>>

\* ------------------------------------------------------------ environment
\* Any holder of the exit flag stores true (exit.store(true) of the test).
SetExit ==
    /\ ~poh_exit
    /\ poh_exit' = TRUE
    /\ UNCHANGED rt_measures
    /\ UNCHANGED <<config, pc, strategy, rt_locals, now_elapsed, ss_locals, poh,
                   poh_lock, recorder_lock, poisoned, ppc, join_result, history,
                   receiver>>

\* Time passes, one tick duration at a time, while the thread sleeps or runs
\* the realtime loop.
AdvanceTime ==
    /\ pc \in {"sl_sleep", "ss_sleep"} \cup RtLoopPcs
    /\ now_elapsed' = Min(now_elapsed + target_tick_duration, ElapsedCap)
    /\ last_metric_elapsed' = IF pc \in RtLoopPcs
                              THEN Min(last_metric_elapsed + target_tick_duration,
                                       MetricCap)
                              ELSE last_metric_elapsed
    /\ <<now_elapsed, last_metric_elapsed>>' # <<now_elapsed, last_metric_elapsed>>
    /\ UNCHANGED rt_measures
    /\ UNCHANGED <<config, poh_exit, pc, strategy, target_tick_ns, should_tick,
                   num_ticks, num_hashes, ss_locals, poh, poh_lock, recorder_lock,
                   poisoned, ppc, join_result, history, receiver>>

\* --------------------------------------------------------- entry producer
\* poh_recorder.lock().unwrap() of the producer's loop.
PLock ==
    /\ ppc = "p_lock"
    /\ recorder_lock = "free"
    /\ IF poisoned
       THEN ppc' = "p_panicked" /\ UNCHANGED recorder_lock
       ELSE ppc' = "p_record" /\ recorder_lock' = "producer"
    /\ UNCHANGED rt_measures
    /\ UNCHANGED <<config, poh_exit, pc, strategy, rt_locals, now_elapsed, ss_locals,
                   poh, poh_lock, poisoned, join_result, history, receiver>>

\* One round of the loop in PohRecorder::record under the recorder lock: an
\* error without a working bank, the entry of Poh::record, or a tick first.
PRecord ==
    /\ ppc = "p_record"
    /\ poh_lock = "free"
    /\ \E working_bank \in BOOLEAN :
        LET r == PohRecord(poh, hashes_per_tick)
        IN  IF ~working_bank
            THEN /\ ppc' = "p_exit"
                 /\ recorder_lock' = "free"
                 /\ UNCHANGED <<poh, receiver>>
            ELSE IF r.entry = 0
                 THEN /\ ppc' = "p_tick"
                      /\ UNCHANGED <<poh, receiver, recorder_lock>>
                 ELSE /\ poh' = r.poh
                      /\ Receive(FALSE, r.entry)
                      /\ ppc' = "p_exit"
                      /\ recorder_lock' = "free"
    /\ UNCHANGED rt_measures
    /\ UNCHANGED <<config, poh_exit, pc, strategy, rt_locals, now_elapsed, ss_locals,
                   poh_lock, poisoned, join_result, history>>

\* self.tick() inside record, when the next hash has to be a tick.
PTick ==
    /\ ppc = "p_tick"
    /\ poh_lock = "free"
    /\ RecorderTick
    /\ ppc' = "p_record"
    /\ UNCHANGED rt_measures
    /\ UNCHANGED <<config, poh_exit, pc, strategy, rt_locals, now_elapsed, ss_locals,
                   poh_lock, recorder_lock, poisoned, join_result, history>>

\* if exit.load() { break; }
PExit ==
    /\ ppc = "p_exit"
    /\ ppc' = IF poh_exit THEN "p_done" ELSE "p_lock"
    /\ UNCHANGED rt_measures
    /\ UNCHANGED <<config, poh_exit, pc, strategy, rt_locals, now_elapsed, ss_locals,
                   poh, poh_lock, recorder_lock, poisoned, join_result, history,
                   receiver>>

\* A holder of the recorder lock panics: the unwinding drops the guard and
\* poisons the mutex.
PPanic ==
    /\ ppc \in {"p_record", "p_tick"}
    /\ poisoned' = TRUE
    /\ recorder_lock' = "free"
    /\ ppc' = "p_panicked"
    /\ UNCHANGED rt_measures
    /\ UNCHANGED <<config, poh_exit, pc, strategy, rt_locals, now_elapsed, ss_locals,
                   poh, poh_lock, join_result, history, receiver>>

\* ------------------------------------------------------- specifications
SchedulerStep ==
    \/ ThreadStart
    \/ SlCheck \/ SlSleep \/ SlLock \/ SlTick
    \/ SsLoop \/ SsSleep \/ SsLock \/ SsTick \/ SsWarn
    \/ RtInit \/ RtLockPoh \/ RtHash \/ RtTickLock \/ RtTick \/ RtSpin \/ RtMetrics
    \/ RtExitCheck
    \/ StoreExit

ProducerStep == PLock \/ PRecord \/ PTick \/ PExit

Next == SchedulerStep \/ ProducerStep \/ PPanic \/ Join \/ SetExit \/ AdvanceTime

Spec == Init /\ [][Next]_vars

\* The scenario of the design's testable properties: hashes_per_tick = 4,
\* hashes_per_batch = 4, ticks_per_slot = 4, with the realtime loop alone.
InitScenario ==
    /\ hashes_per_tick = 4
    /\ target_tick_count = NoValue
    /\ target_tick_duration = Ms(ScenarioTickMs)
    /\ ticks_per_slot = 4
    /\ hashes_per_batch = 4
    /\ Constructed

RealtimeStep ==
    \/ ThreadStart
    \/ RtInit \/ RtLockPoh \/ RtHash \/ RtTickLock \/ RtTick \/ RtSpin \/ RtMetrics
    \/ RtExitCheck
    \/ StoreExit

NextScenario ==
    RealtimeStep \/ ProducerStep \/ PPanic \/ Join \/ SetExit \/ AdvanceTime

SpecScenario == InitScenario /\ [][NextScenario]_vars

\* The sleepy and the realtime loop under fair scheduling: the thread and the
\* producer are scheduled again and again, a free lock is acquired by a thread
\* that keeps waiting for it, and time passes.
InitLive ==
    /\ hashes_per_tick \in HashesPerTickSet
    /\ target_tick_count = NoValue
    /\ target_tick_duration \in TickDurationSet
    /\ ticks_per_slot = 0
    /\ hashes_per_batch \in BatchSet
    /\ Constructed

SleepyStep == SlCheck \/ SlSleep \/ SlLock \/ SlTick

NextLive ==
    \/ SleepyStep \/ RealtimeStep
    \/ ProducerStep \/ PPanic \/ Join \/ SetExit \/ AdvanceTime

SpecLive ==
    /\ InitLive
    /\ [][NextLive]_vars
    /\ WF_vars(SleepyStep \/ RealtimeStep)
    /\ WF_vars(ProducerStep)
    /\ WF_vars(AdvanceTime)

\* The realtime loop on its own, over the tick durations and slot lengths of
\* its budget computation: no producer touches the Poh between the batches.
InitRealtime ==
    /\ hashes_per_tick \in MinHashesPerTick .. MaxHashesPerTick
    /\ target_tick_count = NoValue
    /\ target_tick_duration \in {Ms(ShortTickMs), Ms(TickMs)}
    /\ ticks_per_slot \in 0 .. WideTicksPerSlot
    /\ hashes_per_batch \in BatchSet
    /\ Constructed

NextRealtime == RealtimeStep \/ Join \/ SetExit \/ AdvanceTime

SpecRealtime == InitRealtime /\ [][NextRealtime]_vars

\* The batches of one tick of the realtime loop on a Poh that nobody else
\* touches: poh.lock() and hash(hashes_per_batch), again until should_tick.
\* fuel ends the count for a batch size with which should_tick never comes.
RECURSIVE BatchesUntilTick(_, _, _)
BatchesUntilTick(p, batch, fuel) ==
    LET r == PohHash(p, batch)
    IN  IF r.should_tick \/ fuel = 0 THEN 1
        ELSE 1 + BatchesUntilTick(r.poh, batch, fuel - 1)

LockAcquisitionsPerTick(hpt, batch) == BatchesUntilTick(PohNew(hpt), batch, hpt)

\* The thread is past the budget computation of the realtime branch.
BudgetComputed == pc \in RtLoopPcs \cup {"rt_init", "returned", "done"}

\* ================================================================ claims

\* C1: in the realtime strategy, under every interleaving with the producer's
\* record calls, every tick entry has num_hashes <= hashes_per_tick, every
\* payload entry has num_hashes >= 1, and the num_hashes of a tick entry and of
\* the payload entries since the previous tick add up to hashes_per_tick: none
\* of the receiver's three assertions ever fails.
C1_TickHashBudget ==
    hashes_per_tick # NoValue => asserts_hold /\ hashes < hashes_per_tick

\* A whole tick, a partial tick and a payload entry have all been received.
C1_Witness ==
    /\ strategy = Realtime
    /\ ~need_tick /\ ~need_partial /\ ~need_entry
    /\ sched_ticks >= 2
    /\ asserts_hold

\* C2: the short-lived loop has made exactly target_tick_count tick calls when
\* it returns, and never more, whatever the writes to the exit flag.
C2_ExactlyNTicks ==
    strategy = ShortLived =>
        /\ sched_ticks <= target_tick_count
        /\ pc \in {"returned", "done"} => sched_ticks = target_tick_count

\* The loop returned after MaxTickCount ticks, the flag set after the first.
C2_Witness ==
    /\ strategy = ShortLived
    /\ pc = "returned"
    /\ target_tick_count = MaxTickCount
    /\ sched_ticks = MaxTickCount
    /\ ticks_after_exit = 1

\* C3: the realtime loop reads the exit flag only right after a finalized tick
\* and its spin wait, never between the batches of an unfinished tick, and
\* makes at most one more tick call once the flag is true.
C3_ExitOnlyAfterTick ==
    strategy = Realtime =>
        /\ pc = "rt_exit" => phase = "spun" /\ should_tick
        /\ pc = "returned" => phase = "spun"
        /\ ticks_after_exit <= 1

\* The flag was set during the run, one more tick followed, the loop returned.
C3_Witness ==
    /\ strategy = Realtime
    /\ pc = "returned"
    /\ ~exit_at_start
    /\ sched_ticks >= 2
    /\ ticks_after_exit = 1

C5_StrategySelection ==
    /\ pc # "spawned" =>
        /\ (hashes_per_tick = NoValue /\ target_tick_count = NoValue) => strategy = Sleepy
        /\ (hashes_per_tick = NoValue /\ target_tick_count # NoValue)
               => strategy = ShortLived
        /\ hashes_per_tick # NoValue => strategy = Realtime
    /\ strategy = Realtime => iter = 0 /\ (pc = "returned" => poh_exit)
    /\ strategy = Sleepy => iter = 0
    /\ pc \in RtLoopPcs \cup {"rt_init"} => strategy = Realtime
    /\ pc \in {"sl_check", "sl_sleep", "sl_lock", "sl_tick"} => strategy = Sleepy
    /\ pc \in {"ss_loop", "ss_sleep", "ss_lock", "ss_tick", "ss_warn"}
           => strategy = ShortLived

\* A realtime run configured with a tick count made more tick calls than that
\* count, and returned on the exit flag.
C5_Witness ==
    /\ strategy = Realtime
    /\ target_tick_count = MaxTickCount
    /\ sched_ticks > target_tick_count
    /\ pc = "returned"

\* C6: the sleepy loop reads the exit flag only when no started sleep awaits
\* its tick, so every started sleep is followed by its tick call before the
\* flag is read again, and it makes at most one tick call once the flag is
\* true: the one it was waiting for.
C6_SleepyExit ==
    strategy = Sleepy =>
        /\ pc \in {"sl_check", "returned", "done"} => phase \in {"idle", "ticked"}
        /\ pc \in {"sl_sleep", "sl_lock", "sl_tick"} => phase = "sleeping"
        /\ ticks_after_exit <= 1
        /\ exit_at_start => sched_ticks = 0

\* The flag was set during a sleep, the awaited tick followed, the loop
\* returned.
C6_Witness ==
    /\ strategy = Sleepy
    /\ pc = "returned"
    /\ sched_ticks >= 2
    /\ ticks_after_exit = 1

C8_PanicSurfacesAtJoin ==
    /\ pc = "panicked" => ~ENABLED SchedulerStep
    /\ join_result # "none" => Terminated
    /\ join_result = "err" => pc = "panicked"
    /\ join_result = "ok" => pc = "done"

\* The thread panicked on the poisoned recorder lock after a tick, and the
\* owner's join returned Err.
C8_Witness ==
    /\ pc = "panicked"
    /\ poisoned
    /\ sched_ticks >= 1
    /\ join_result = "err"

\* C10: in the scenario, once the loop has made 4 tick calls without a metrics
\* flush, and until it starts the next batch, the totals it would report are
\* num_hashes = 16 and num_ticks = 4.
C10_ScenarioTotals ==
    (/\ sched_ticks = 4
     /\ flushes = 0
     /\ pc \in {"rt_spin", "rt_metrics", "rt_exit", "rt_loop", "returned", "done"})
        => num_hashes = 16 /\ num_ticks = 4

\* Four ticks done, the producer's entries interleaved, no flush yet.
C10_Witness ==
    /\ sched_ticks = 4
    /\ flushes = 0
    /\ pc = "rt_metrics"
    /\ num_hashes = 16
    /\ num_ticks = 4
    /\ ~need_partial

\* C9 as stated: in the sleepy and the realtime loop, for every batch size and
\* hashes_per_tick, once the exit flag is true the thread eventually ends, so
\* that a join completes.
C9_Original ==
    (poh_exit /\ strategy \in {Sleepy, Realtime}) ~> Terminated

\* C11: in the sleepy loop, every tick call is made with at least
\* target_tick_duration elapsed on the clock since the sleep that precedes it
\* started, and that sleep starts after the previous tick call: two successive
\* tick calls are at least target_tick_duration apart. No upper bound.
C11_SleepyTickSpacing ==
    (strategy = Sleepy /\ pc \in {"sl_lock", "sl_tick"})
        => now_elapsed >= target_tick_duration

\* The second tick call is about to be made, a full sleep after the first.
C11_Witness ==
    /\ strategy = Sleepy
    /\ pc = "sl_tick"
    /\ sched_ticks >= 1
    /\ now_elapsed >= target_tick_duration

\* C12 as stated: the batches of a tick, each one acquisition of the Poh lock,
\* number LockAcquisitionsPerTick, and for every larger batch size that number
\* is strictly smaller.
C12_Original ==
    (/\ strategy = Realtime /\ pc = "rt_tick_lock" /\ sched_ticks = 0
     /\ hashes_per_batch >= 1)
        => /\ num_hashes = Min(hashes_per_batch
                                   * LockAcquisitionsPerTick(hashes_per_tick,
                                                             hashes_per_batch),
                               NumHashesCap)
           /\ \A b2 \in BatchSet : b2 > hashes_per_batch =>
                  LockAcquisitionsPerTick(hashes_per_tick, b2)
                      < LockAcquisitionsPerTick(hashes_per_tick, hashes_per_batch)

\* C12 as amended: for batch sizes of at least 1 the number of Poh lock
\* acquisitions per tick never increases with the batch size; it is 1 for
\* every batch size from hashes_per_tick - 1 on, so it stops decreasing there.
C12_BatchMonotone ==
    (/\ strategy = Realtime /\ pc = "rt_tick_lock" /\ sched_ticks = 0
     /\ hashes_per_batch >= 1)
        => /\ num_hashes = Min(hashes_per_batch
                                   * LockAcquisitionsPerTick(hashes_per_tick,
                                                             hashes_per_batch),
                               NumHashesCap)
           /\ \A b2 \in BatchSet : b2 > hashes_per_batch =>
                  LockAcquisitionsPerTick(hashes_per_tick, b2)
                      <= LockAcquisitionsPerTick(hashes_per_tick, hashes_per_batch)
           /\ hashes_per_batch >= hashes_per_tick - 1 =>
                  LockAcquisitionsPerTick(hashes_per_tick, hashes_per_batch) = 1

\* The first tick is due after hashes_per_tick - 1 batches of one hash, more
\* acquisitions than the largest batch size needs.
C12_Witness ==
    /\ strategy = Realtime /\ pc = "rt_tick_lock" /\ sched_ticks = 0
    /\ hashes_per_tick = MaxHashesPerTick
    /\ hashes_per_batch = 1
    /\ num_hashes = hashes_per_tick - 1
    /\ LockAcquisitionsPerTick(hashes_per_tick, MaxBatch) < num_hashes

\* C13 as stated: the budget is the tick duration less 50,000,000 /
\* ticks_per_slot (the tick duration itself for ticks_per_slot = 0), and the
\* budgets of the ticks of a slot add up to ticks_per_slot tick durations less
\* 50,000,000 exactly.
C13_Original ==
    (strategy = Realtime /\ BudgetComputed) =>
        /\ ticks_per_slot = 0 => target_tick_ns = target_tick_duration
        /\ ticks_per_slot > 0 =>
            /\ target_tick_ns
                   = target_tick_duration - TARGET_SLOT_ADJUSTMENT_NS \div ticks_per_slot
            /\ ticks_per_slot * target_tick_ns
                   = ticks_per_slot * target_tick_duration - TARGET_SLOT_ADJUSTMENT_NS

\* C13 as amended: with the integer quotient q = 50,000,000 / ticks_per_slot
\* not above the tick duration, the budget is the tick duration less q and the
\* budgets of a slot add up to ticks_per_slot tick durations less
\* ticks_per_slot * q: that is 50,000,000 exactly when ticks_per_slot divides
\* 50,000,000, and up to ticks_per_slot - 1 ns less of it otherwise. With q
\* above the tick duration the subtraction underflows and the loop, if the
\* thread did not panic, runs with the wrapped budget.
C13_TickBudget ==
    (strategy = Realtime /\ BudgetComputed) =>
        /\ ticks_per_slot = 0 => target_tick_ns = target_tick_duration
        /\ ticks_per_slot > 0 =>
            LET q == TARGET_SLOT_ADJUSTMENT_NS \div ticks_per_slot
                slot == ticks_per_slot * target_tick_duration
                sum == ticks_per_slot * target_tick_ns
            IN  IF q <= target_tick_duration
                THEN /\ target_tick_ns = target_tick_duration - q
                     /\ sum = slot - ticks_per_slot * q
                     /\ sum >= slot - TARGET_SLOT_ADJUSTMENT_NS
                     /\ sum < slot - TARGET_SLOT_ADJUSTMENT_NS + ticks_per_slot
                     /\ (sum = slot - TARGET_SLOT_ADJUSTMENT_NS)
                            <=> (TARGET_SLOT_ADJUSTMENT_NS % ticks_per_slot = 0)
                ELSE target_tick_ns = WrappedBudget

\* A tick was paced with the budget of a slot length that does not divide
\* 50,000,000.
C13_Witness ==
    /\ strategy = Realtime
    /\ pc = "rt_metrics"
    /\ sched_ticks >= 1
    /\ ticks_per_slot > 0
    /\ TARGET_SLOT_ADJUSTMENT_NS % ticks_per_slot # 0
    /\ target_tick_ns
           = target_tick_duration - TARGET_SLOT_ADJUSTMENT_NS \div ticks_per_slot

\* C19 as stated: the budget computation never underflows, so the realtime
\* loop always runs with a budget of at most the tick duration.
C19_Original ==
    (strategy = Realtime /\ BudgetComputed) => target_tick_ns <= target_tick_duration

\* C14: the thread holds no lock while it spins for the tick's pacing or
\* sleeps: it holds the recorder lock only for a tick call and the Poh lock
\* only for a batch, and a producer that asks for the recorder lock during the
\* pacing delay gets it.
C14_NoLockWhilePacing ==
    /\ pc \in {"rt_spin", "sl_sleep", "ss_sleep"} =>
           /\ poh_lock # "sched"
           /\ recorder_lock # "sched"
           /\ ppc = "p_lock" => ENABLED PLock
    /\ recorder_lock = "sched" => pc \in {"sl_tick", "ss_tick", "rt_tick"}
    /\ poh_lock = "sched" => pc = "rt_hash"

\* The producer holds the recorder lock while the thread spins after a tick.
C14_Witness ==
    /\ pc = "rt_spin"
    /\ now_elapsed < target_tick_ns
    /\ sched_ticks >= 1
    /\ ppc = "p_record"
    /\ recorder_lock = "producer"

\* C16: after a tick call the realtime loop goes on exactly when the time since
\* the last reset of its clock reference is at least target_tick_ns (at once
\* when it already is), it then resets the reference, and nothing else in the
\* loop resets it: successive resets are at least target_tick_ns apart, and
\* the metrics and the exit check come after the spin.
C16_SpinUntilBudget ==
    /\ [](pc = "rt_spin" => (ENABLED RtSpin <=> now_elapsed >= target_tick_ns))
    /\ [](strategy = Realtime /\ pc \in {"rt_metrics", "rt_exit"} => phase = "spun")
    /\ [][(strategy = Realtime /\ pc # "rt_init" /\ now_elapsed' < now_elapsed)
             => /\ pc = "rt_spin"
                /\ now_elapsed >= target_tick_ns
                /\ now_elapsed' = 0
                /\ pc' = "rt_metrics"]_vars

\* The second tick's spin is over and the reference was reset.
C16_Witness ==
    /\ strategy = Realtime
    /\ pc = "rt_metrics"
    /\ phase = "spun"
    /\ sched_ticks >= 2
    /\ now_elapsed = 0

\* C17: the thread never holds the Poh lock and the recorder lock together and
\* never waits for the recorder lock while it holds the Poh lock; whoever
\* holds a lock that the other thread waits for can take a step, so the thread
\* and the producer never wait for each other.
C17_LockOrder ==
    /\ ~(poh_lock = "sched" /\ recorder_lock = "sched")
    /\ pc \in {"rt_init", "rt_tick_lock", "sl_lock", "ss_lock"} => poh_lock # "sched"
    /\ (pc \in {"rt_init", "rt_tick_lock", "sl_lock", "ss_lock"}
           /\ recorder_lock = "producer") => ENABLED ProducerStep
    /\ (ppc = "p_lock" /\ recorder_lock = "sched") => ENABLED SchedulerStep
    /\ (ppc \in {"p_record", "p_tick"} /\ poh_lock = "sched") => ENABLED SchedulerStep
    /\ (pc \notin {"done", "panicked"} /\ ppc \notin {"p_done", "p_panicked"})
           => ENABLED SchedulerStep \/ ENABLED ProducerStep \/ ENABLED AdvanceTime

\* The producer holds the recorder lock and waits for the Poh lock, which the
\* thread holds for a batch.
C17_Witness ==
    /\ pc = "rt_hash"
    /\ poh_lock = "sched"
    /\ ppc = "p_record"
    /\ recorder_lock = "producer"
    /\ sched_ticks >= 1

\* C18: with the exit flag true as the thread starts, the sleepy loop makes no
\* tick call, the short-lived loop returns after target_tick_count tick calls,
\* and the realtime loop reads the flag for the first time after one tick call
\* and returns with exactly that one.
C18_TicksWhenExitAtStart ==
    exit_at_start =>
        /\ poh_exit
        /\ strategy = Sleepy => sched_ticks = 0
        /\ strategy = ShortLived =>
               /\ sched_ticks <= target_tick_count
               /\ pc \in {"returned", "done"} => sched_ticks = target_tick_count
        /\ strategy = Realtime =>
               /\ sched_ticks <= 1
               /\ pc \in {"rt_exit", "returned", "done"} => sched_ticks = 1

\* The realtime loop returned after its one tick call.
C18_Witness ==
    /\ exit_at_start
    /\ strategy = Realtime
    /\ pc = "returned"
    /\ sched_ticks = 1

\* C20: num_ticks is at least 1 whenever the flush condition is evaluated, so
\* the division of the datapoint never panics: the thread never ends between
\* the spin and the exit check.
C20_DivisorPositive ==
    /\ pc \in {"rt_spin", "rt_metrics"} => num_ticks >= 1
    /\ pc = "panicked" => phase # "spun"

\* A flush is due, with ticks counted since the last one.
C20_Witness ==
    /\ pc = "rt_metrics"
    /\ last_metric_elapsed \div NsPerMs > MetricFlushMs
    /\ num_ticks >= 1
    /\ sched_ticks >= 1

\* C15: the totals are reset only by a flush, which is a step of the metrics
\* check right after a tick call and its spin with more than 1000 ms on the
\* flush clock; that step leaves every total at zero and the flush clock
\* reset. Every other step of the realtime loop adds one to num_ticks when it
\* is the tick call and leaves it alone otherwise, so num_ticks is the number
\* of tick calls since the last flush (since the start, before the first).
C15_FlushAfterTick ==
    /\ [](strategy = Realtime /\ flushes = 0 => num_ticks = sched_ticks)
    /\ [][strategy = Realtime =>
            IF \/ num_ticks' < num_ticks
               \/ num_hashes' < num_hashes
               \/ last_metric_elapsed' < last_metric_elapsed
               \/ total_sleep_us' < total_sleep_us
               \/ total_lock_time_ns' < total_lock_time_ns
               \/ total_hash_time_ns' < total_hash_time_ns
               \/ total_tick_time_ns' < total_tick_time_ns
               \/ flushes' # flushes
            THEN /\ pc = "rt_metrics" /\ pc' = "rt_exit"
                 /\ phase = "spun" /\ should_tick
                 /\ last_metric_elapsed \div NsPerMs > MetricFlushMs
                 /\ num_ticks' = 0 /\ num_hashes' = 0
                 /\ total_sleep_us' = 0 /\ total_lock_time_ns' = 0
                 /\ total_hash_time_ns' = 0 /\ total_tick_time_ns' = 0
                 /\ last_metric_elapsed' = 0
            ELSE num_ticks' = IF pc = "rt_tick" /\ pc' = "rt_spin"
                             THEN SatInc(num_ticks, TickCap)
                             ELSE num_ticks]_vars

\* Right after a flush that followed two tick calls: every total is zero.
C15_Witness ==
    /\ strategy = Realtime
    /\ pc = "rt_exit"
    /\ flushes = 1
    /\ sched_ticks >= 2
    /\ num_ticks = 0 /\ num_hashes = 0
    /\ total_sleep_us = 0 /\ total_lock_time_ns = 0
    /\ total_hash_time_ns = 0 /\ total_tick_time_ns = 0
    /\ last_metric_elapsed = 0
====
